---- MODULE Spec2Model ----
(***************************************************************************)
(* Model of the Scheduler component of src/src/App.jsx: the task store,    *)
(* the per-day schedule maps, the placement engine (placeTask with its     *)
(* cascading pushTasksDown), the resize interaction, the auto-delete       *)
(* sweep and what the component renders (drop targets, scheduled tasks).   *)
(***************************************************************************)
EXTENDS Integers, Sequences, FiniteSets, TLC

VARIABLES tasks, allSchedules, draggedTask, resizingRef, newTaskText,
          currentDate, now, mounted, last, placeCalls, renderedTasks

\* tasks is the task store with every queued update applied; renderedTasks is the
\* value of `tasks` the last render gave to the handlers' closures and to the JSX.
\* They differ only while the render of a sweep's update is still pending.
vars == <<tasks, allSchedules, draggedTask, resizingRef, newTaskText,
          currentDate, now, mounted, last, placeCalls, renderedTasks>>

----------------------------------------------------------------------------
(* Program constants *)

NumSlots == 18
FirstHour == 5
SLOT_HEIGHT == 60
AUTO_DELETE_DELAY == 5 * 60 * 1000

(* Bounds of the model *)

MaxTasks == 2        \* tasks ever held in the store at once
MaxPlaceCalls == 1   \* direct calls of placeTask in one session
MaxStartDuration == 2 \* a resize starts on placements no longer than this
MaxListLen == 3      \* tasks of a displayed list

NULL == "null"

----------------------------------------------------------------------------
(* Helpers: JS values *)

padStart2(n) == IF n < 10 THEN "0" \o ToString(n) ELSE ToString(n)

timeSlots == [i \in 0..(NumSlots - 1) |-> padStart2(i + FirstHour) \o ":00"]

formatDateToYYYYMMDD(date) ==
    ToString(date.year) \o "-" \o padStart2(date.month + 1) \o "-" \o padStart2(date.date)

findTimeIndex(time) ==
    IF \E i \in DOMAIN timeSlots : timeSlots[i] = time
    THEN CHOOSE i \in DOMAIN timeSlots : timeSlots[i] = time
    ELSE -1

EmptyMap == [k \in {} |-> NULL]

HasKey(m, k) == k \in DOMAIN m

DeleteKey(m, k) == [x \in DOMAIN m \ {k} |-> m[x]]

SetKey(m, k, v) == [x \in DOMAIN m \cup {k} |-> IF x = k THEN v ELSE m[x]]

\* completedAt is <<>> for null and <<t>> for the timestamp t
NoTime == <<>>

Truthy(completedAt) == completedAt # NoTime /\ completedAt[1] # 0

currentDayKey == formatDateToYYYYMMDD(currentDate)

scheduleForCurrentDate ==
    IF HasKey(allSchedules, currentDayKey) THEN allSchedules[currentDayKey] ELSE EmptyMap

----------------------------------------------------------------------------
(* The task store *)

RECURSIVE trimStart(_)
trimStart(s) == IF s # <<>> /\ Head(s) = " " THEN trimStart(Tail(s)) ELSE s

RECURSIVE trimEnd(_)
trimEnd(s) == IF s # <<>> /\ s[Len(s)] = " " THEN trimEnd(SubSeq(s, 1, Len(s) - 1)) ELSE s

\* variant of trim that removes nothing
trim_nothing(s) == s

trim(s) == trimEnd(trimStart(s))

\* tasks.find(t => t.id === taskId): <<the first match>>, or <<>> (undefined) if none
findTask(ts, taskId) ==
    IF \E i \in 1..Len(ts) : ts[i].id = taskId
    THEN <<ts[CHOOSE i \in 1..Len(ts) :
                /\ ts[i].id = taskId
                /\ \A j \in 1..(i - 1) : ts[j].id # taskId]>>
    ELSE <<>>

\* variant of expired that counts the boundary instant as past the window
expired_atBoundary(task, t) ==
    task.isCompleted /\ Truthy(task.completedAt) /\ t - task.completedAt[1] >= AUTO_DELETE_DELAY

\* the negation of the filter's predicate in the auto-delete interval
expired(task, t) ==
    task.isCompleted /\ Truthy(task.completedAt) /\ (t - task.completedAt[1] > AUTO_DELETE_DELAY)

\* variant of the sweep that removes nothing
autoDeleteFilter_keepsAll(prevTasks, t) == prevTasks

\* the updater of the auto-delete interval
RECURSIVE autoDeleteFilter(_, _)
autoDeleteFilter(prevTasks, t) ==
    IF prevTasks = <<>> THEN <<>>
    ELSE IF ~expired(Head(prevTasks), t)
         THEN <<Head(prevTasks)>> \o autoDeleteFilter(Tail(prevTasks), t)
         ELSE autoDeleteFilter(Tail(prevTasks), t)

\* variant of the completion updater that forgets the id test
markCompleted_all(prevTasks, taskId, t) ==
    [i \in 1..Len(prevTasks) |->
        [prevTasks[i] EXCEPT !.isCompleted = TRUE, !.completedAt = <<t>>]]

\* the updater of handleCheckboxChange
markCompleted(prevTasks, taskId, t) ==
    [i \in 1..Len(prevTasks) |->
        IF prevTasks[i].id = taskId
        THEN [prevTasks[i] EXCEPT !.isCompleted = TRUE, !.completedAt = <<t>>]
        ELSE prevTasks[i]]

\* the updater of handleUnstrikeTask
markUncompleted(prevTasks, taskId) ==
    [i \in 1..Len(prevTasks) |->
        IF prevTasks[i].id = taskId
        THEN [prevTasks[i] EXCEPT !.isCompleted = FALSE, !.completedAt = NoTime]
        ELSE prevTasks[i]]

newTask(text, t) ==
    [id |-> ToString(t), text |-> trim(text), isCompleted |-> FALSE, completedAt |-> NoTime]

----------------------------------------------------------------------------
(* The placement engine *)

RECURSIVE pushLoop_ownDuration(_, _, _, _)
\* variant of the loop that moves an occupant by its own duration
pushLoop_ownDuration(scheduleMap, i, endIndex, duration) ==
    IF i >= endIndex THEN scheduleMap
    ELSE IF i \in DOMAIN timeSlots /\ HasKey(scheduleMap, timeSlots[i])
         THEN LET time == timeSlots[i]
                  existing == scheduleMap[time]
                  nextIndex == i + existing.duration
                  deleted == DeleteKey(scheduleMap, time)
                  moved == IF nextIndex \in DOMAIN timeSlots
                           THEN SetKey(pushLoop_ownDuration(deleted, nextIndex,
                                           nextIndex + existing.duration, existing.duration),
                                       timeSlots[nextIndex], existing)
                           ELSE deleted
              IN pushLoop_ownDuration(moved, i + 1, endIndex, duration)
         ELSE pushLoop_ownDuration(scheduleMap, i + 1, endIndex, duration)

RECURSIVE pushLoop(_, _, _, _)
\* the for loop of pushTasksDown, from index i up to (not including) endIndex
pushLoop(scheduleMap, i, endIndex, duration) ==
    IF i >= endIndex THEN scheduleMap
    ELSE IF i \in DOMAIN timeSlots /\ HasKey(scheduleMap, timeSlots[i])
         THEN LET time == timeSlots[i]
                  existing == scheduleMap[time]
                  nextIndex == i + duration
                  deleted == DeleteKey(scheduleMap, time)
                  moved == IF nextIndex \in DOMAIN timeSlots
                           THEN SetKey(pushLoop(deleted, nextIndex,
                                                nextIndex + existing.duration,
                                                existing.duration),
                                       timeSlots[nextIndex], existing)
                           ELSE deleted
              IN pushLoop(moved, i + 1, endIndex, duration)
         ELSE pushLoop(scheduleMap, i + 1, endIndex, duration)

pushTasksDown(scheduleMap, startIndex, duration) ==
    pushLoop(scheduleMap, startIndex, startIndex + duration, duration)

\* variant of the clearing step that clears nothing
clearTask_keep(daySchedule, taskId) == daySchedule

\* "Clear existing instances of this task for the current day"
clearTask(daySchedule, taskId) ==
    [k \in {x \in DOMAIN daySchedule : daySchedule[x].taskId # taskId} |-> daySchedule[k]]

dayScheduleOf(all, dayKey) == IF HasKey(all, dayKey) THEN all[dayKey] ELSE EmptyMap

\* what placeTask makes of one day's map
placeInDay(daySchedule, startTime, taskId, duration) ==
    SetKey(pushTasksDown(clearTask(daySchedule, taskId), findTimeIndex(startTime), duration),
           startTime, [taskId |-> taskId, duration |-> duration])

\* the updater of placeTask
placeTask(prevAllSchedules, dayKey, startTime, taskId, duration) ==
    SetKey(prevAllSchedules, dayKey,
           placeInDay(dayScheduleOf(prevAllSchedules, dayKey), startTime, taskId, duration))

\* variant of removeTask that deletes the slot's entry on every day
removeTask_everyDay(prevAllSchedules, dayKey, startTime) ==
    [d \in DOMAIN prevAllSchedules \cup {dayKey} |->
        DeleteKey(dayScheduleOf(prevAllSchedules, d), startTime)]

\* the updater of removeTask
removeTask(prevAllSchedules, dayKey, startTime) ==
    SetKey(prevAllSchedules, dayKey, DeleteKey(dayScheduleOf(prevAllSchedules, dayKey), startTime))

\* Math.max(1, Math.round(startDuration + dy / SLOT_HEIGHT)), then the clamp
\* Math.round rounds halves up: round(x) = floor(x + 1/2)
newDurationOf(startDuration, dy, startIndex) ==
    LET rounded == (2 * SLOT_HEIGHT * startDuration + 2 * dy + SLOT_HEIGHT) \div (2 * SLOT_HEIGHT)
        atLeast1 == IF rounded > 1 THEN rounded ELSE 1
    IN IF atLeast1 < NumSlots - startIndex THEN atLeast1 ELSE NumSlots - startIndex

\* the first overlap loop of handleMouseMove
noOtherInRange(daySchedule, startTime, startIndex, newDuration) ==
    \A i \in startIndex..(startIndex + newDuration - 1) :
        ~(i \in DOMAIN timeSlots /\ HasKey(daySchedule, timeSlots[i]) /\ timeSlots[i] # startTime)

\* the second overlap loop, run with the resized entry taken out
noneInRange(daySchedule, startIndex, newDuration) ==
    \A i \in startIndex..(startIndex + newDuration - 1) :
        ~(i \in DOMAIN timeSlots /\ HasKey(daySchedule, timeSlots[i]))

\* TRUE when the updater of handleMouseMove reads existingTask.taskId of undefined
resizeThrows(daySchedule, startTime, startIndex, newDuration) ==
    /\ noOtherInRange(daySchedule, startTime, startIndex, newDuration)
    /\ ~HasKey(daySchedule, startTime)

\* variant of the resize that commits the new duration without the overlap loops
resizeInDay_unchecked(daySchedule, startTime, startIndex, newDuration) ==
    SetKey(daySchedule, startTime,
           [taskId |-> daySchedule[startTime].taskId, duration |-> newDuration])

\* what the updater of handleMouseMove makes of one day's map
resizeInDay(daySchedule, startTime, startIndex, newDuration) ==
    IF noOtherInRange(daySchedule, startTime, startIndex, newDuration)
       /\ daySchedule[startTime].duration # newDuration
    THEN LET existingTask == daySchedule[startTime]
             removed == DeleteKey(daySchedule, startTime)
         IN IF noneInRange(removed, startIndex, newDuration)
            THEN SetKey(removed, startTime,
                        [taskId |-> existingTask.taskId, duration |-> newDuration])
            ELSE SetKey(removed, startTime, existingTask)
    ELSE daySchedule

\* the updater of handleMouseMove
resizeTask(prevAllSchedules, dayKey, startTime, newDuration) ==
    SetKey(prevAllSchedules, dayKey,
           resizeInDay(dayScheduleOf(prevAllSchedules, dayKey), startTime,
                       findTimeIndex(startTime), newDuration))

----------------------------------------------------------------------------
(* What the component renders *)

\* isCovered of the drop-slot rendering
isCovered(daySchedule, idx) ==
    \E start \in DOMAIN daySchedule :
        LET startIdx == findTimeIndex(start)
            dur == daySchedule[start].duration
        IN idx >= startIdx /\ idx < startIdx + dur

\* the slots rendered with an onDrop handler
dropTargets == {timeSlots[idx] : idx \in {i \in DOMAIN timeSlots : ~isCovered(scheduleForCurrentDate, i)}}

\* the placements rendered as scheduled tasks (with checkbox, Remove, resize handle)
renderedPlacements ==
    {startTime \in DOMAIN scheduleForCurrentDate :
        LET task == findTask(renderedTasks, scheduleForCurrentDate[startTime].taskId)
        IN task # <<>> /\ ~task[1].isCompleted}

\* visibleTasks: the filter of the task list, with Date.now() read at render time
visibleTasks(ts, t) == SelectSeq(ts, LAMBDA task : ~expired(task, t))

\* the comparator of sortedTasks
compareTasks(a, b) ==
    IF a.isCompleted /\ ~b.isCompleted THEN 1
    ELSE IF ~a.isCompleted /\ b.isCompleted THEN -1
    ELSE 0

\* x inserted into the sorted list xs behind every element that does not compare
\* greater than it
insertSorted(xs, x) ==
    LET behind == {i \in 1..Len(xs) : \A j \in 1..i : compareTasks(xs[j], x) <= 0}
        n == Cardinality(behind)
    IN SubSeq(xs, 1, n) \o <<x>> \o SubSeq(xs, n + 1, Len(xs))

RECURSIVE sortFrom(_, _)
sortFrom(sorted, rest) ==
    IF rest = <<>> THEN sorted ELSE sortFrom(insertSorted(sorted, Head(rest)), Tail(rest))

\* variant of sortedTasks that leaves the list as it is
sortedTasks_unsorted(ts) == ts

\* [...visibleTasks].sort(comparator): Array.prototype.sort is stable
sortedTasks(ts) == sortFrom(<<>>, ts)

----------------------------------------------------------------------------
(* Inputs the model draws from *)

\* the slot the user drops tasks on: the last but one of the day
DropSlots == {timeSlots[NumSlots - 2]}

\* the slots and durations placeTask is called with directly
EngineSlots == {timeSlots[0], timeSlots[1], timeSlots[NumSlots - 2], timeSlots[NumSlots - 1]}

EngineDurations == {1, 2}

InputTexts == {<<>>, <<" ", " ">>, <<" ", "a", " ">>}

\* the instants at which the clock is read
Instants == {1, 1 + AUTO_DELETE_DELAY, 2 + AUTO_DELETE_DELAY}

\* pointer positions of a mouse move, relative to the position of the mouse down
DeltaYs == {-SLOT_HEIGHT, SLOT_HEIGHT \div 2 - 1, SLOT_HEIGHT \div 2, SLOT_HEIGHT}

Today == [year |-> 2026, month |-> 10, date |-> 6]

\* the days of the month the user navigates to: today and tomorrow
Dates == {Today.date, Today.date + 1}

NoResize == [active |-> FALSE, startTime |-> "", startY |-> 0, startDuration |-> 0]

taskIds == {tasks[i].id : i \in 1..Len(tasks)}

\* the ids of the tasks of the rendered list
renderedIds == {renderedTasks[i].id : i \in 1..Len(renderedTasks)}

----------------------------------------------------------------------------
(* Initial state: nothing persisted yet *)

Init ==
    /\ tasks = <<>>
    /\ allSchedules = EmptyMap
    /\ draggedTask = NULL
    /\ resizingRef = NoResize
    /\ newTaskText = <<>>
    /\ currentDate = Today
    /\ now = 1
    /\ mounted = TRUE
    /\ last = [op |-> "init"]
    /\ placeCalls = 0
    /\ renderedTasks = tasks

----------------------------------------------------------------------------
(* Handlers *)

\* onChange of the text input
handleChange(text) ==
    /\ mounted
    /\ newTaskText' = text
    /\ last' = [op |-> "handleChange"]
    /\ UNCHANGED <<tasks, allSchedules, draggedTask, resizingRef, currentDate, now, mounted, placeCalls, renderedTasks>>

addTask ==
    /\ mounted
    /\ Len(renderedTasks) < MaxTasks
    /\ IF trim(newTaskText) # <<>>
       THEN /\ tasks' = renderedTasks \o <<newTask(newTaskText, now)>>
            /\ renderedTasks' = tasks'
            /\ newTaskText' = <<>>
       ELSE UNCHANGED <<tasks, newTaskText, renderedTasks>>
    /\ last' = [op |-> "addTask", text |-> newTaskText, preTasks |-> tasks,
                pre |-> allSchedules]
    /\ UNCHANGED <<allSchedules, draggedTask, resizingRef, currentDate, now, mounted, placeCalls>>

\* dragstart on a task of the list; only tasks that are not completed are draggable
handleTaskDragStart(taskId) ==
    /\ mounted
    /\ resizingRef = NoResize
    /\ \E i \in 1..Len(renderedTasks) :
           renderedTasks[i].id = taskId /\ ~renderedTasks[i].isCompleted
    /\ draggedTask' = taskId
    /\ last' = [op |-> "handleTaskDragStart"]
    /\ UNCHANGED <<tasks, allSchedules, resizingRef, newTaskText, currentDate, now, mounted, placeCalls, renderedTasks>>

\* drop on a rendered drop target
handleDrop(time) ==
    /\ mounted
    /\ resizingRef = NoResize
    /\ time \in dropTargets
    /\ IF draggedTask = NULL
       THEN /\ UNCHANGED <<allSchedules, draggedTask>>
            /\ last' = [op |-> "handleDrop", time |-> time, placed |-> FALSE,
                        dragged |-> draggedTask, pre |-> allSchedules]
       ELSE LET task == findTask(renderedTasks, draggedTask)
            IN IF task # <<>> /\ task[1].isCompleted
               THEN /\ draggedTask' = NULL
                    /\ UNCHANGED allSchedules
                    /\ last' = [op |-> "handleDrop", time |-> time, placed |-> FALSE,
                                dragged |-> draggedTask, pre |-> allSchedules]
               ELSE /\ allSchedules' = placeTask(allSchedules, currentDayKey, time, draggedTask, 1)
                    /\ draggedTask' = NULL
                    /\ last' = [op |-> "placeTask", startTime |-> time, taskId |-> draggedTask,
                                duration |-> 1, dayKey |-> currentDayKey, pre |-> allSchedules]
    /\ UNCHANGED <<tasks, resizingRef, newTaskText, currentDate, now, mounted, placeCalls, renderedTasks>>

\* click on Remove of a rendered placement
clickRemove(startTime) ==
    /\ mounted
    /\ resizingRef = NoResize
    /\ startTime \in renderedPlacements
    /\ allSchedules' = removeTask(allSchedules, currentDayKey, startTime)
    /\ last' = [op |-> "removeTask", startTime |-> startTime, dayKey |-> currentDayKey,
                pre |-> allSchedules]
    /\ UNCHANGED <<tasks, draggedTask, resizingRef, newTaskText, currentDate, now, mounted, placeCalls, renderedTasks>>

\* mouse down on the resize handle of a rendered placement
handleMouseDown(startTime) ==
    /\ mounted
    /\ resizingRef = NoResize
    /\ startTime \in renderedPlacements
    /\ scheduleForCurrentDate[startTime].duration <= MaxStartDuration
    /\ resizingRef' = [active |-> TRUE, startTime |-> startTime, startY |-> 0,
                       startDuration |-> scheduleForCurrentDate[startTime].duration]
    /\ last' = [op |-> "handleMouseDown"]
    /\ UNCHANGED <<tasks, allSchedules, draggedTask, newTaskText, currentDate, now, mounted, placeCalls, renderedTasks>>

\* mousemove on the window
handleMouseMove(clientY) ==
    /\ mounted
    /\ IF ~resizingRef.active
       THEN /\ UNCHANGED <<allSchedules, mounted>>
            /\ last' = [op |-> "handleMouseMove", resizing |-> FALSE, pre |-> allSchedules]
       ELSE LET startTime == resizingRef.startTime
                dy == clientY - resizingRef.startY
                startIndex == findTimeIndex(startTime)
                newDuration == newDurationOf(resizingRef.startDuration, dy, startIndex)
            IN IF resizeThrows(scheduleForCurrentDate, startTime, startIndex, newDuration)
               THEN /\ mounted' = FALSE
                    /\ UNCHANGED allSchedules
                    /\ last' = [op |-> "handleMouseMove", resizing |-> TRUE, threw |-> TRUE,
                                startTime |-> startTime, newDuration |-> newDuration,
                                dayKey |-> currentDayKey, pre |-> allSchedules]
               ELSE /\ allSchedules' = resizeTask(allSchedules, currentDayKey, startTime, newDuration)
                    /\ UNCHANGED mounted
                    /\ last' = [op |-> "handleMouseMove", resizing |-> TRUE, threw |-> FALSE,
                                startTime |-> startTime, newDuration |-> newDuration,
                                dayKey |-> currentDayKey, pre |-> allSchedules]
    /\ UNCHANGED <<tasks, draggedTask, resizingRef, newTaskText, currentDate, now, placeCalls, renderedTasks>>

\* variant of the mouseup handler that leaves the resize in progress
handleMouseUp_keeps ==
    /\ mounted
    /\ resizingRef.active
    /\ last' = [op |-> "handleMouseUp"]
    /\ UNCHANGED <<tasks, allSchedules, draggedTask, resizingRef, newTaskText, currentDate, now, mounted, placeCalls, renderedTasks>>

\* mouseup on the window
handleMouseUp ==
    /\ mounted
    /\ resizingRef.active
    /\ resizingRef' = NoResize
    /\ last' = [op |-> "handleMouseUp"]
    /\ UNCHANGED <<tasks, allSchedules, draggedTask, newTaskText, currentDate, now, mounted, placeCalls, renderedTasks>>

navigateDate(direction) ==
    /\ mounted
    /\ resizingRef = NoResize
    /\ currentDate.date + direction \in Dates
    /\ currentDate' = [currentDate EXCEPT !.date = @ + direction]
    /\ last' = [op |-> "navigateDate", pre |-> allSchedules]
    /\ UNCHANGED <<tasks, allSchedules, draggedTask, resizingRef, newTaskText, now, mounted, placeCalls, renderedTasks>>

\* the checkbox of a rendered placement
handleCheckboxChange(taskId, startTime) ==
    /\ mounted
    /\ resizingRef = NoResize
    /\ startTime \in renderedPlacements
    /\ taskId = scheduleForCurrentDate[startTime].taskId
    /\ tasks' = markCompleted(tasks, taskId, now)
    /\ renderedTasks' = markCompleted(renderedTasks, taskId, now)
    /\ allSchedules' = removeTask(allSchedules, currentDayKey, startTime)
    /\ last' = [op |-> "handleCheckboxChange", taskId |-> taskId, startTime |-> startTime,
                dayKey |-> currentDayKey, at |-> now, pre |-> allSchedules, preTasks |-> tasks]
    /\ UNCHANGED <<draggedTask, resizingRef, newTaskText, currentDate, now, mounted, placeCalls>>

\* the Unstrike button of a completed task of the list
handleUnstrikeTask(taskId) ==
    /\ mounted
    /\ resizingRef = NoResize
    /\ \E i \in 1..Len(renderedTasks) :
           renderedTasks[i].id = taskId /\ renderedTasks[i].isCompleted
    /\ tasks' = markUncompleted(tasks, taskId)
    /\ renderedTasks' = markUncompleted(renderedTasks, taskId)
    /\ last' = [op |-> "handleUnstrikeTask", taskId |-> taskId, preTasks |-> tasks]
    /\ UNCHANGED <<allSchedules, draggedTask, resizingRef, newTaskText, currentDate, now, mounted, placeCalls>>

\* the callback of the 30 s interval
autoDelete ==
    /\ mounted
    /\ tasks' = autoDeleteFilter(tasks, now)
    /\ last' = [op |-> "autoDelete", at |-> now, preTasks |-> tasks]
    /\ UNCHANGED <<allSchedules, draggedTask, resizingRef, newTaskText, currentDate, now, mounted, placeCalls, renderedTasks>>

\* the render React schedules for the update of the interval callback: the update is
\* made outside an event handler, so its render is either done before the callback
\* returns or queued and done later, after events that were already waiting
render ==
    /\ mounted
    /\ renderedTasks # tasks
    /\ renderedTasks' = tasks
    /\ last' = [op |-> "render"]
    /\ UNCHANGED <<tasks, allSchedules, draggedTask, resizingRef, newTaskText, currentDate, now, mounted, placeCalls>>

\* the clock (Date.now()) advances
Tick(t) ==
    /\ t > now
    /\ now' = t
    /\ last' = [op |-> "Tick"]
    /\ UNCHANGED <<tasks, allSchedules, draggedTask, resizingRef, newTaskText, currentDate, mounted, placeCalls, renderedTasks>>

\* placeTask called with any valid slot, any stored task and any duration that fits the
\* day, while no resize is in progress
callPlaceTask(startTime, taskId, duration) ==
    /\ mounted
    /\ resizingRef = NoResize
    /\ placeCalls < MaxPlaceCalls
    /\ placeCalls' = placeCalls + 1
    /\ findTimeIndex(startTime) + duration <= NumSlots
    /\ allSchedules' = placeTask(allSchedules, currentDayKey, startTime, taskId, duration)
    /\ last' = [op |-> "placeTask", startTime |-> startTime, taskId |-> taskId,
                duration |-> duration, dayKey |-> currentDayKey, pre |-> allSchedules]
    /\ UNCHANGED <<tasks, draggedTask, resizingRef, newTaskText, currentDate, now, mounted, renderedTasks>>

\* removeTask called with any slot of the engine's inputs, present in the day or not
callRemoveTask(startTime) ==
    /\ mounted
    /\ resizingRef = NoResize
    /\ allSchedules' = removeTask(allSchedules, currentDayKey, startTime)
    /\ last' = [op |-> "removeTask", startTime |-> startTime, dayKey |-> currentDayKey,
                pre |-> allSchedules]
    /\ UNCHANGED <<tasks, draggedTask, resizingRef, newTaskText, currentDate, now, mounted, placeCalls, renderedTasks>>

----------------------------------------------------------------------------
(* Specifications *)

\* the component driven through its rendered user interface
Next ==
    \/ \E text \in InputTexts : handleChange(text)
    \/ addTask
    \/ \E taskId \in renderedIds : handleTaskDragStart(taskId)
    \/ \E time \in DropSlots : handleDrop(time)
    \/ \E startTime \in renderedPlacements : clickRemove(startTime)
    \/ \E startTime \in renderedPlacements : handleMouseDown(startTime)
    \/ \E clientY \in DeltaYs : handleMouseMove(clientY)
    \/ handleMouseUp
    \/ \E direction \in {-1, 1} : navigateDate(direction)
    \/ \E startTime \in renderedPlacements, taskId \in renderedIds : handleCheckboxChange(taskId, startTime)
    \/ \E taskId \in renderedIds : handleUnstrikeTask(taskId)
    \/ autoDelete
    \/ render
    \/ \E t \in Instants : Tick(t)

Spec == Init /\ [][Next]_vars

\* A later session: the state initializers load what an earlier session persisted,
\* three tasks and either no schedule or one of a few layouts of the current day.
PersistedTasks == <<newTask(<<"a">>, 1), newTask(<<"b">>, 2), newTask(<<"c">>, 3)>>

placement(taskId, duration) == [taskId |-> taskId, duration |-> duration]

PersistedDayMaps ==
    { SetKey(SetKey(EmptyMap, timeSlots[0], placement("1", 1)), timeSlots[1], placement("2", 1)),
      SetKey(SetKey(EmptyMap, timeSlots[0], placement("1", 2)), timeSlots[2], placement("2", 1)),
      SetKey(SetKey(EmptyMap, timeSlots[NumSlots - 2], placement("1", 1)),
             timeSlots[NumSlots - 1], placement("2", 1)),
      SetKey(EmptyMap, timeSlots[NumSlots - 2], placement("1", 2)) }

InitPlace ==
    /\ tasks = PersistedTasks
    /\ allSchedules \in {EmptyMap} \cup
                       {SetKey(EmptyMap, formatDateToYYYYMMDD(Today), m) : m \in PersistedDayMaps}
    /\ draggedTask = NULL
    /\ resizingRef = NoResize
    /\ newTaskText = <<>>
    /\ currentDate = Today
    /\ now = 4
    /\ mounted = TRUE
    /\ last = [op |-> "init"]
    /\ placeCalls = 0
    /\ renderedTasks = tasks

\* the placement engine called with any valid slot, stored task and fitting duration,
\* together with the resize, remove, complete, un-strike and sweep operations
NextPlace ==
    \/ \E startTime \in EngineSlots, taskId \in taskIds, duration \in EngineDurations :
           callPlaceTask(startTime, taskId, duration)
    \/ \E startTime \in EngineSlots : callRemoveTask(startTime)
    \/ \E startTime \in renderedPlacements : clickRemove(startTime)
    \/ \E startTime \in renderedPlacements : handleMouseDown(startTime)
    \/ \E clientY \in DeltaYs : handleMouseMove(clientY)
    \/ handleMouseUp
    \/ \E startTime \in renderedPlacements, taskId \in taskIds : handleCheckboxChange(taskId, startTime)
    \/ \E taskId \in taskIds : handleUnstrikeTask(taskId)
    \/ autoDelete

\* the interval callback fires every 30 s while the component is mounted, and time passes
LiveSpec == Spec /\ WF_vars(autoDelete) /\ WF_vars(\E t \in Instants : Tick(t))

PlaceSpec == InitPlace /\ [][NextPlace]_vars

----------------------------------------------------------------------------
(* Persistence: JSON values, what the effects write and what the state         *)
(* initializers make of a stored item                                          *)

\* JSON values, as JSON.parse returns them and JSON.stringify takes them
Jnull == [t |-> "null"]
Jbool(b) == [t |-> "bool", b |-> b]
Jnum(n) == [t |-> "num", n |-> n]
Jstr(x) == [t |-> "str", s |-> x]
Jarr(xs) == [t |-> "arr", a |-> xs]
Jobj(m) == [t |-> "obj", o |-> m]

\* a localStorage item: absent (getItem returns null), the empty string, a text
\* JSON.parse throws on, or the text of a JSON value
ItemAbsent == [k |-> "absent"]
ItemEmpty == [k |-> "empty"]
ItemGarbage == [k |-> "garbage"]
ItemJSON(j) == [k |-> "json", j |-> j]

\* JSON.stringify of one task and of the task list
taskToJSON(task) ==
    Jobj([id |-> Jstr(task.id), text |-> Jstr(task.text),
          isCompleted |-> Jbool(task.isCompleted),
          completedAt |-> IF task.completedAt = NoTime THEN Jnull
                          ELSE Jnum(task.completedAt[1])])

stringifyTasks(ts) == ItemJSON(Jarr([i \in 1..Len(ts) |-> taskToJSON(ts[i])]))

\* JSON.stringify of the schedule store
placementToJSON(p) == Jobj([taskId |-> Jstr(p.taskId), duration |-> Jnum(p.duration)])

dayMapToJSON(m) == Jobj([k \in DOMAIN m |-> placementToJSON(m[k])])

stringifySchedules(all) == ItemJSON(Jobj([d \in DOMAIN all |-> dayMapToJSON(all[d])]))

\* the items the persistence effects wrote after the last committed render
writtenTasks == stringifyTasks(renderedTasks)

writtenSchedules == stringifySchedules(allSchedules)

\* variant of the initializer that ignores the stored item
loadJSON_reset(item, default) == default

\* the value a JSON-backed state initializer returns: the default when the item is
\* absent or empty (falsy) or when JSON.parse throws (caught), else the parsed value
\* as it is, whatever its shape
loadJSON(item, default) ==
    IF item.k \in {"absent", "empty", "garbage"} THEN default ELSE item.j

loadTasks(item) == loadJSON(item, Jarr(<<>>))

loadSchedules(item) == loadJSON(item, Jobj(EmptyMap))

\* the task record and the task list a parsed value is to the code that reads it
taskOfJSON(j) ==
    [id |-> j.o.id.s, text |-> j.o.text.s, isCompleted |-> j.o.isCompleted.b,
     completedAt |-> IF j.o.completedAt.t = "null" THEN NoTime ELSE <<j.o.completedAt.n>>]

tasksOfJSON(j) == [i \in 1..Len(j.a) |-> taskOfJSON(j.a[i])]

placementOfJSON(j) == [taskId |-> j.o.taskId.s, duration |-> j.o.duration.n]

schedulesOfJSON(j) ==
    [d \in DOMAIN j.o |-> [k \in DOMAIN j.o[d].o |-> placementOfJSON(j.o[d].o[k])]]

\* the currentDate initializer: new Date() when the item is absent or empty, else
\* new Date(storedDate), which is an Invalid Date for a text that is no date
DateAbsent == [k |-> "absent"]
DateISO(date) == [k |-> "iso", date |-> date]
DateText == [k |-> "text"]

InvalidDate == [year |-> -1, month |-> -1, date |-> -1]

loadDate(item) ==
    IF item.k = "absent" THEN Today
    ELSE IF item.k = "iso" THEN item.date
    ELSE InvalidDate

\* the first render and the first run of the effects throw: allSchedules[currentDayKey]
\* on null, tasks.filter on a value that is no array, toISOString() on an Invalid Date
startupThrows(tasksValue, schedulesValue, dateValue) ==
    \/ schedulesValue.t = "null"
    \/ tasksValue.t # "arr"
    \/ dateValue = InvalidDate

\* what an earlier session, another script or the user left in localStorage
TaskItems ==
    {ItemAbsent, ItemEmpty, ItemGarbage, ItemJSON(Jnull), ItemJSON(Jnum(5)),
     ItemJSON(Jobj(EmptyMap)), ItemJSON(Jarr(<<>>))}

ScheduleItems == {ItemAbsent, ItemGarbage, ItemJSON(Jnull), ItemJSON(Jobj(EmptyMap))}

DateItems == {DateAbsent, DateISO(Today), DateText}

\* the component after its state initializers, its first render and the first run
\* of its effects, for every combination of stored items; a throw leaves it unmounted
InitStart ==
    \E ti \in TaskItems, si \in ScheduleItems, di \in DateItems :
        LET tasksValue == loadTasks(ti)
            schedulesValue == loadSchedules(si)
            dateValue == loadDate(di)
            threw == startupThrows(tasksValue, schedulesValue, dateValue)
        IN /\ tasks = IF tasksValue.t = "arr" THEN tasksOfJSON(tasksValue) ELSE <<>>
           /\ allSchedules = IF schedulesValue.t = "obj" THEN schedulesOfJSON(schedulesValue)
                              ELSE EmptyMap
           /\ currentDate = IF dateValue = InvalidDate THEN Today ELSE dateValue
           /\ mounted = ~threw
           /\ last = [op |-> "startup", tasksItem |-> ti, schedulesItem |-> si,
                       dateItem |-> di, tasksValue |-> tasksValue,
                       schedulesValue |-> schedulesValue, dateValue |-> dateValue]
           /\ draggedTask = NULL
           /\ resizingRef = NoResize
           /\ newTaskText = <<>>
           /\ now = 1
           /\ placeCalls = 0
           /\ renderedTasks = tasks

StartSpec == InitStart /\ [][Next]_vars

\* The task list as the left panel shows it, for task lists of up to MaxListLen
\* tasks, each not completed, completed at instant 1 or completed at the last instant
ListTask(n, kind) ==
    [id |-> ToString(n), text |-> <<"a">>, isCompleted |-> kind # 0,
     completedAt |-> IF kind = 0 THEN NoTime
                     ELSE IF kind = 1 THEN <<1>> ELSE <<2 + AUTO_DELETE_DELAY>>]

TaskLists ==
    UNION {{[i \in 1..n |-> ListTask(i, kinds[i])] : kinds \in [1..n -> 0..2]} : n \in 0..MaxListLen}

InitList ==
    /\ tasks \in TaskLists
    /\ renderedTasks = tasks
    /\ allSchedules = EmptyMap
    /\ draggedTask = NULL
    /\ resizingRef = NoResize
    /\ newTaskText = <<>>
    /\ currentDate = Today
    /\ now \in Instants
    /\ mounted = TRUE
    /\ last = [op |-> "init"]
    /\ placeCalls = 0

\* a render: the list shown is sortedTasks of visibleTasks of the rendered task list
display ==
    /\ mounted
    /\ last' = [op |-> "display", at |-> now, preTasks |-> renderedTasks,
                shown |-> sortedTasks(visibleTasks(renderedTasks, now))]
    /\ UNCHANGED <<tasks, allSchedules, draggedTask, resizingRef, newTaskText, currentDate, now, mounted, placeCalls, renderedTasks>>

NextList ==
    \/ display
    \/ \E t \in Instants : Tick(t)
    \/ \E taskId \in renderedIds : handleUnstrikeTask(taskId)

ListSpec == InitList /\ [][NextList]_vars

----------------------------------------------------------------------------
(* Vocabulary of the properties *)

\* the slot indices a placement starting at start with the given duration occupies
slotRange(start, duration) ==
    findTimeIndex(start)..(findTimeIndex(start) + duration - 1)

\* the placements starting at a and at b in one day's map share a slot
intersect(dayMap, a, b) ==
    slotRange(a, dayMap[a].duration) \cap slotRange(b, dayMap[b].duration) # {}

dayDisjoint(dayMap) ==
    \A a \in DOMAIN dayMap : \A b \in DOMAIN dayMap \ {a} : ~intersect(dayMap, a, b)

\* the day's map before and after the step that last recorded (for steps on the schedule)
preDay == dayScheduleOf(last.pre, last.dayKey)

postDay == dayScheduleOf(allSchedules, last.dayKey)

\* the last step was placeTask(S, T, D)
placed == last.op = "placeTask"

\* the task ids placed in a day's map
placedIds(dayMap) == {dayMap[k].taskId : k \in DOMAIN dayMap}

----------------------------------------------------------------------------
(* C1: in every reachable state the placements of each day's schedule map   *)
(* are pairwise disjoint: no two entries of one day share a slot index.     *)

C1_PlacementsDisjoint ==
    \A dayKey \in DOMAIN allSchedules : dayDisjoint(allSchedules[dayKey])

(* C2: immediately after place(S, T, D) the day's map holds {T, D} at S, T   *)
(* is placed nowhere else in the day, and no other placement of the day has  *)
(* a range that intersects [S, S+D).                                         *)

C2_PlacedRangeIsFree ==
    placed =>
        /\ HasKey(postDay, last.startTime)
        /\ postDay[last.startTime] = placement(last.taskId, last.duration)
        /\ \A k \in DOMAIN postDay \ {last.startTime} :
              /\ postDay[k].taskId # last.taskId
              /\ ~intersect(postDay, last.startTime, k)

(* C3: in every reachable state a task id appears in at most one placement  *)
(* of each day's schedule map.                                               *)

C3_OnePlacementPerTask ==
    \A dayKey \in DOMAIN allSchedules :
        \A a \in DOMAIN allSchedules[dayKey] : \A b \in DOMAIN allSchedules[dayKey] \ {a} :
            allSchedules[dayKey][a].taskId # allSchedules[dayKey][b].taskId

\* a task placed at one slot has just been placed at another slot of the same day, next
\* to another task's placement, and its earlier placement is gone
C3_Witness ==
    /\ placed
    /\ \E k \in DOMAIN preDay \ {last.startTime} : preDay[k].taskId = last.taskId
    /\ \E k \in DOMAIN postDay : postDay[k].taskId # last.taskId
    /\ {k \in DOMAIN postDay : postDay[k].taskId = last.taskId} = {last.startTime}

(* C4: for place(S, T, D), every placement of another task that started at  *)
(* index i in [S, S+D) starts at i+D afterwards with its duration unchanged, *)
(* or is gone from the day if i+D is past the last slot; a placement that    *)
(* such a displaced placement (of duration d) lands on, starting at j, is    *)
(* displaced by the same rule with d: it starts at j+d or is gone, and if    *)
(* more placements push it further it never starts before j+d.               *)

\* the placements of other tasks that started in the target range [S, S+D)
inTargetRange ==
    {k \in DOMAIN preDay :
        /\ preDay[k].taskId # last.taskId
        /\ findTimeIndex(k) \in slotRange(last.startTime, last.duration)}

\* the placement that started at k before the call starts at index idx afterwards
movedTo(k, idx) ==
    /\ idx \in DOMAIN timeSlots
    /\ HasKey(postDay, timeSlots[idx])
    /\ postDay[timeSlots[idx]] = preDay[k]

\* the task placed at k before the call is placed nowhere in the day afterwards
dropped(k) == preDay[k].taskId \notin placedIds(postDay)

\* the placements of other tasks that the displaced placement from k lands on
landedOn(k) ==
    {x \in DOMAIN preDay \ inTargetRange :
        /\ preDay[x].taskId # last.taskId
        /\ findTimeIndex(x) \in (findTimeIndex(k) + last.duration)
                                ..(findTimeIndex(k) + last.duration + preDay[k].duration - 1)}

C4_CascadingDisplacement ==
    placed =>
        \A k \in inTargetRange :
            LET i == findTimeIndex(k)
                d == preDay[k].duration
            IN /\ IF i + last.duration < NumSlots
                  THEN movedTo(k, i + last.duration)
                  ELSE dropped(k)
               /\ i + last.duration < NumSlots =>
                    \A x \in landedOn(k) :
                        LET j == findTimeIndex(x)
                            pushedOnce == \A y \in DOMAIN preDay \ {k, x} :
                                              preDay[y].taskId = last.taskId
                        IN /\ \/ dropped(x)
                              \/ \E idx \in (j + d)..(NumSlots - 1) : movedTo(x, idx)
                           /\ pushedOnce =>
                                IF j + d < NumSlots THEN movedTo(x, j + d) ELSE dropped(x)

\* a placement of duration 2 was displaced onto another one, which moved on by 2
C4_Witness ==
    /\ placed
    /\ \E k \in inTargetRange :
          /\ preDay[k].duration = 2
          /\ movedTo(k, findTimeIndex(k) + last.duration)
          /\ \E x \in landedOn(k) : movedTo(x, findTimeIndex(x) + 2)

(* C5: a resize step never makes the resized placement intersect another    *)
(* placement of the day that it did not intersect before; and when another   *)
(* placement starts inside the candidate range the step is rejected: the     *)
(* whole Schedule Store equals its value before the step.                    *)

resized == last.op = "handleMouseMove" /\ last.resizing /\ ~last.threw

\* another placement starts inside the candidate range [start, start + newDuration)
candidateHoldsOther ==
    \E k \in DOMAIN preDay \ {last.startTime} :
        findTimeIndex(k) \in slotRange(last.startTime, last.newDuration)

C5_ResizeNeverCollides ==
    resized =>
        /\ \A k \in DOMAIN postDay \ {last.startTime} :
              (HasKey(postDay, last.startTime) /\ intersect(postDay, last.startTime, k))
                  => (HasKey(preDay, last.startTime) /\ HasKey(preDay, k)
                      /\ intersect(preDay, last.startTime, k))
        /\ candidateHoldsOther => allSchedules = last.pre

\* a resize to a longer duration was rejected because the next placement is in the way
C5_Witness ==
    /\ resized
    /\ candidateHoldsOther
    /\ HasKey(preDay, last.startTime)
    /\ last.newDuration > preDay[last.startTime].duration
    /\ dayDisjoint(preDay)

(* C6: in every reachable state every placement of every day has a duration *)
(* of at least 1 and ends no later than the last time slot.                  *)

C6_PlacementsFitTheDay ==
    \A dayKey \in DOMAIN allSchedules : \A k \in DOMAIN allSchedules[dayKey] :
        /\ allSchedules[dayKey][k].duration >= 1
        /\ findTimeIndex(k) + allSchedules[dayKey][k].duration <= NumSlots

(* C7: checking a scheduled task complete removes the placement at its slot *)
(* from the current day's map and keeps the task's record in the store,      *)
(* completed and stamped with the current time; the store keeps its size,    *)
(* and every other record keeps its place and content.                       *)

checked == last.op = "handleCheckboxChange"

\* the record the checked placement shows: the first one with the id (tasks.find)
checkedIndex ==
    CHOOSE i \in 1..Len(last.preTasks) :
        /\ last.preTasks[i].id = last.taskId
        /\ \A j \in 1..(i - 1) : last.preTasks[j].id # last.taskId

C7_CompleteKeepsTheTask ==
    checked =>
        /\ ~HasKey(postDay, last.startTime)
        /\ last.at = now
        /\ Len(tasks) = Len(last.preTasks)
        /\ \E i \in 1..Len(last.preTasks) : last.preTasks[i].id = last.taskId
        /\ \A i \in 1..Len(tasks) :
              IF i = checkedIndex
              THEN tasks[i] = [id |-> last.taskId, text |-> last.preTasks[i].text,
                               isCompleted |-> TRUE, completedAt |-> <<now>>]
              ELSE tasks[i] = last.preTasks[i]

(* C8: a sweep at time t removes exactly the tasks that are completed with   *)
(* a completion time more than 5 minutes before t, and keeps all other       *)
(* tasks in their order.                                                     *)

swept == last.op = "autoDelete"

pastRetention(task, t) ==
    /\ task.isCompleted
    /\ task.completedAt # NoTime
    /\ t - task.completedAt[1] > 5 * 60 * 1000

C8_SweepRemovesOnlyExpired ==
    swept =>
        /\ last.at = now
        /\ tasks = SelectSeq(last.preTasks, LAMBDA task : ~pastRetention(task, last.at))

\* a sweep removed one task and kept another, completed exactly 5 minutes before or less
C8_Witness ==
    /\ swept
    /\ Len(tasks) = 1
    /\ Len(last.preTasks) = 2
    /\ tasks[1].isCompleted

(* C9: a task completed early enough for the clock to pass its retention     *)
(* window is eventually no longer stored as completed: the sweep removes it, *)
(* unless it is un-struck first.                                             *)

storedCompleted(id) == \E i \in 1..Len(tasks) : tasks[i].id = id /\ tasks[i].isCompleted

\* completed at a time after which the clock still reaches the end of the retention window
completedInTime(id) ==
    \E i \in 1..Len(tasks) :
        /\ tasks[i].id = id
        /\ tasks[i].isCompleted
        /\ tasks[i].completedAt # NoTime
        /\ \E t \in Instants : t - tasks[i].completedAt[1] > 5 * 60 * 1000

C9_CompletedEventuallyExpires ==
    \A id \in {ToString(t) : t \in Instants} : completedInTime(id) ~> ~storedCompleted(id)

\* the sweep removed the only task of the store, which was completed
C9_Witness ==
    /\ swept
    /\ tasks = <<>>
    /\ Len(last.preTasks) = 1
    /\ last.preTasks[1].isCompleted

(* C10: a placement of the current day whose task is not in the store is not *)
(* rendered, and the slots it covers are drop targets (unless a placement of *)
(* a stored task covers them).                                               *)
(* Stated for the states in which the render of the last change is done.     *)

dangling == {k \in DOMAIN scheduleForCurrentDate : scheduleForCurrentDate[k].taskId \notin taskIds}

coveredByStored(idx) ==
    \E k \in DOMAIN scheduleForCurrentDate \ dangling :
        idx \in slotRange(k, scheduleForCurrentDate[k].duration)

C10_DanglingTreatedAsAbsent ==
    renderedTasks = tasks => \A k \in dangling :
        /\ k \notin renderedPlacements
        /\ \A idx \in slotRange(k, scheduleForCurrentDate[k].duration) \cap DOMAIN timeSlots :
              ~coveredByStored(idx) => timeSlots[idx] \in dropTargets

(* C11: an add whose text trims to a non-empty text makes the store one task *)
(* longer: the new task is last, with the trimmed text, not completed and    *)
(* with no completion time, and every task stored before keeps its place     *)
(* and content.                                                              *)

added == last.op = "addTask" /\ trim(last.text) # <<>>

C11_AddAppendsOneTask ==
    added =>
        /\ Len(tasks) = Len(last.preTasks) + 1
        /\ tasks[Len(tasks)].text = trim(last.text)
        /\ tasks[Len(tasks)].isCompleted = FALSE
        /\ tasks[Len(tasks)].completedAt = NoTime
        /\ \A i \in 1..Len(last.preTasks) : i <= Len(tasks) /\ tasks[i] = last.preTasks[i]

(* C12: an add whose text is empty or only white space leaves the task      *)
(* store and the schedule store unchanged, and raises no error.              *)

blank(text) == \A i \in 1..Len(text) : text[i] = " "

addedBlank == last.op = "addTask" /\ blank(last.text)

C12_BlankAddChangesNothing ==
    addedBlank =>
        /\ tasks = last.preTasks
        /\ allSchedules = last.pre
        /\ mounted

\* an add of a text of spaces only, with a task stored and a placement scheduled
C12_Witness ==
    /\ addedBlank
    /\ last.text # <<>>
    /\ tasks # <<>>
    /\ scheduleForCurrentDate # EmptyMap

(* C13: in every reachable state the tasks of the store have pairwise        *)
(* distinct ids, also when two adds happen at the same clock reading.        *)

C13_IdsDistinct ==
    \A i, j \in 1..Len(tasks) : i # j => tasks[i].id # tasks[j].id

(* C14: startup never fails on persisted state: when a stored item is       *)
(* absent or malformed (not parseable, or parseable to a value of the wrong  *)
(* shape, or no date), the store it feeds starts at its default, and the     *)
(* first render and the first persistence write succeed.                     *)

started == last.op = "startup"

malformedTasksItem(item) == item.k \in {"absent", "empty", "garbage"} \/ item.j.t # "arr"

malformedSchedulesItem(item) == item.k \in {"absent", "empty", "garbage"} \/ item.j.t # "obj"

malformedDateItem(item) == item.k # "iso"

C14_StartupNeverFails ==
    started =>
        /\ mounted
        /\ malformedTasksItem(last.tasksItem)
              => (last.tasksValue.t = "arr" /\ last.tasksValue.a = <<>> /\ tasks = <<>>)
        /\ malformedSchedulesItem(last.schedulesItem)
              => (last.schedulesValue.t = "obj" /\ DOMAIN last.schedulesValue.o = {}
                  /\ allSchedules = EmptyMap)
        /\ malformedDateItem(last.dateItem) => (last.dateValue = Today /\ currentDate = Today)

(* C15: persistence round trip: once the render of the last change is      *)
(* committed and its effects have written, reading the written items back    *)
(* with the startup initializers gives the task store (same tasks, order and *)
(* fields) and the schedule store (same day keys, slot keys, task ids and    *)
(* durations) that are in memory.                                            *)

renderCommitted == mounted /\ renderedTasks = tasks

removed == last.op = "removeTask"

C16_RemoveExactlyOne ==
    removed =>
        IF HasKey(last.pre, last.dayKey) /\ HasKey(last.pre[last.dayKey], last.startTime)
        THEN /\ DOMAIN allSchedules = DOMAIN last.pre
             /\ \A d \in DOMAIN last.pre \ {last.dayKey} : allSchedules[d] = last.pre[d]
             /\ DOMAIN postDay = DOMAIN preDay \ {last.startTime}
             /\ \A k \in DOMAIN postDay : postDay[k] = preDay[k]
        ELSE /\ DOMAIN allSchedules = DOMAIN last.pre
             /\ \A d \in DOMAIN last.pre : allSchedules[d] = last.pre[d]

(* C17: the displayed task list is a stable partition of the visible tasks  *)
(* by isCompleted: the uncompleted tasks first, then the completed ones,     *)
(* each group in the order of the store; the visible tasks are the stored    *)
(* tasks except those completed more than 5 minutes before the render.       *)

displayed == last.op = "display"

hidden(task, t) ==
    task.isCompleted /\ task.completedAt # NoTime /\ t - task.completedAt[1] > 5 * 60 * 1000

C17_DisplayIsStablePartition ==
    displayed =>
        LET visible == SelectSeq(last.preTasks, LAMBDA task : ~hidden(task, last.at))
        IN last.shown = SelectSeq(visible, LAMBDA task : ~task.isCompleted)
                        \o SelectSeq(visible, LAMBDA task : task.isCompleted)

\* a list of three tasks shown with a completed task moved behind two uncompleted ones
C17_Witness ==
    /\ displayed
    /\ Len(last.preTasks) = 3
    /\ Len(last.shown) = 3
    /\ last.preTasks[1].isCompleted
    /\ ~last.preTasks[2].isCompleted
    /\ ~last.preTasks[3].isCompleted

(* C18: a mouse-up ends the resize in progress; a resize only begins with a *)
(* mouse-down on the handle of a placement of the current day; and a mouse   *)
(* move while no resize is in progress leaves the schedule store unchanged.  *)

C18_MouseUpEndsResize ==
    /\ [][last'.op = "handleMouseUp" => ~resizingRef'.active]_vars
    /\ [][(~resizingRef.active /\ resizingRef'.active)
            => /\ last'.op = "handleMouseDown"
               /\ HasKey(scheduleForCurrentDate, resizingRef'.startTime)]_vars
    /\ [][(last'.op = "handleMouseMove" /\ ~resizingRef.active)
            => allSchedules' = allSchedules]_vars

\* a mouse move after the resize that made a placement two slots long was ended
C18_Witness ==
    /\ last.op = "handleMouseMove"
    /\ ~last.resizing
    /\ ~resizingRef.active
    /\ \E k \in DOMAIN scheduleForCurrentDate : scheduleForCurrentDate[k].duration = 2

(* C19: every mutation of the task store is applied to the latest store:    *)
(* an add keeps the store it finds and appends at most one task, so it never *)
(* brings back a task a sweep removed and never reverts a completion or an   *)
(* un-strike; a completion and an un-strike keep every task of the store     *)
(* and change only isCompleted and completedAt; a sweep only removes tasks.  *)

sameButCompletion(a, b) == a.id = b.id /\ a.text = b.text

C19_NoLostUpdate ==
    /\ last.op = "addTask" =>
          /\ Len(tasks) \in {Len(last.preTasks), Len(last.preTasks) + 1}
          /\ \A i \in 1..Len(last.preTasks) : tasks[i] = last.preTasks[i]
    /\ last.op \in {"handleCheckboxChange", "handleUnstrikeTask"} =>
          /\ Len(tasks) = Len(last.preTasks)
          /\ \A i \in 1..Len(tasks) : sameButCompletion(tasks[i], last.preTasks[i])
    /\ last.op = "autoDelete" =>
          /\ Len(tasks) <= Len(last.preTasks)
          /\ \A i \in 1..Len(tasks) : \E j \in i..Len(last.preTasks) : tasks[i] = last.preTasks[j]

(* C20: day isolation: place, resize, remove and complete act on the        *)
(* currently selected day and leave the schedule map of every other day as   *)
(* it was, adding no other day key; navigating to another day changes no     *)
(* schedule map.                                                             *)

onCurrentDay ==
    \/ last.op \in {"placeTask", "removeTask", "handleCheckboxChange"}
    \/ (last.op = "handleMouseMove" /\ last.resizing)

C20_DayIsolation ==
    /\ onCurrentDay =>
          /\ last.dayKey = currentDayKey
          /\ DOMAIN allSchedules \subseteq DOMAIN last.pre \cup {last.dayKey}
          /\ \A d \in DOMAIN last.pre \ {last.dayKey} :
                d \in DOMAIN allSchedules /\ allSchedules[d] = last.pre[d]
    /\ last.op = "navigateDate" => allSchedules = last.pre

\* a task placed on two days was completed on the current day and is still placed
\* on the other day
C20_Witness ==
    /\ last.op = "handleCheckboxChange"
    /\ \E d \in DOMAIN allSchedules \ {last.dayKey} :
          \E k \in DOMAIN allSchedules[d] :
              k = last.startTime /\ allSchedules[d][k].taskId = last.taskId

(* C21: a drop never schedules a completed task. A drop while no drag is in  *)
(* progress, or while the dragged task is completed, leaves the schedule     *)
(* store unchanged; any other drop places the dragged task at the target     *)
(* slot with duration 1; after every drop the drag state is cleared. The     *)
(* dragged task is the task of the list the drag started on: it is known to  *)
(* be completed when every stored task with the dragged id is, and known not *)
(* to be when the drag has just started on it (only tasks that are not       *)
(* completed are draggable) or when no stored task with the dragged id is    *)
(* completed. Stated for drops handled with the task list rendered from the  *)
(* latest store.                                                             *)

\* the step is a drop
dropStep == last'.op = "handleDrop" \/ (last'.op = "placeTask" /\ draggedTask # NULL)

\* the slot the drop of this step is on
dropSlot == IF last'.op = "placeTask" THEN last'.startTime ELSE last'.time

\* the stored tasks with the dragged id
draggedRecords == {i \in 1..Len(tasks) : tasks[i].id = draggedTask}

draggedIsCompleted ==
    /\ draggedRecords # {}
    /\ \A i \in draggedRecords : tasks[i].isCompleted

draggedIsNotCompleted ==
    \/ last.op = "handleTaskDragStart"
    \/ \A i \in draggedRecords : ~tasks[i].isCompleted

\* the schedule store after the step holds the dragged task at the slot, one slot long
placedByDrop ==
    /\ HasKey(allSchedules', currentDayKey)
    /\ HasKey(allSchedules'[currentDayKey], dropSlot)
    /\ allSchedules'[currentDayKey][dropSlot] = [taskId |-> draggedTask, duration |-> 1]

C21_DropNeverSchedulesCompleted ==
    [][(dropStep /\ renderedTasks = tasks) =>
          /\ draggedTask' = NULL
          /\ draggedTask = NULL => allSchedules' = allSchedules
          /\ (draggedTask # NULL /\ draggedIsCompleted) => allSchedules' = allSchedules
          /\ (draggedTask # NULL /\ draggedIsNotCompleted) => placedByDrop]_vars

====
